---- MODULE Spec2Model ----
(***************************************************************************)
(* Model of the wish-operator reservation lifecycle:                       *)
(*   - Server.handleReserve   (internal/web/server.go)                     *)
(*   - WishReconciler.Reconcile (internal/controller/wish_controller.go)   *)
(*   - the Wish helpers       (api/v1alpha1/wish_types.go)                 *)
(* against one Wish object kept in a versioned store (the Kubernetes API   *)
(* server: Get, and Status().Update with optimistic concurrency on         *)
(* metadata.resourceVersion).                                              *)
(*                                                                         *)
(* Instants and durations are whole hours.  A nil pointer / absent value   *)
(* is the empty sequence Nil, a set one is the one-element sequence.       *)
(***************************************************************************)
EXTENDS Integers, Sequences, FiniteSets, TLC

VARIABLES store, now, req, resp, rec, srv, bucket, mw, call

vars == <<store, now, req, resp, rec, srv, bucket, mw, call>>

(***************************************************************************)
(* Bounds of the model.                                                    *)
(***************************************************************************)
\* number of concurrent POST /wishes/{name}/reserve requests
NumRequests == 2

\* the requests
Requests == 1..NumRequests

\* number of requests that pass through the rate-limit middleware: the
\* first NumRequests of them are reservation requests, the others GET /
NumVisits == 3

\* the requests that reach the server
Visits == 1..NumVisits

\* the instants the wall clock is observed at (hours since the item's creation)
Instants == {1, 24, 48}

\* spec.quantity of the stored item
InitQuantities == {0, 5}

\* spec.ttl of the stored item, in hours (Nil: no ttl)
InitTTLs == {<<>>, <<24>>}

\* the name of the stored item, and a name no stored item has
WishName == "reserve-wish"
MissingName == "nonexistent"
Names == {WishName, MissingName}

(***************************************************************************)
(* Program constants.                                                      *)
(***************************************************************************)
minWeeks == 1
maxWeeks == 8

StatusOK == 200
StatusBadRequest == 400
StatusNotFound == 404
StatusConflict == 409
StatusTooManyRequests == 429
StatusInternalServerError == 500

\* time.Duration(weeks) * 7 * 24 * time.Hour, in hours
WeeksDuration(weeks) == weeks * 7 * 24

\* the largest int32, the bitSize given to strconv.ParseInt
MaxInt32 == 2147483647

Nil == <<>>
Some(x) == <<x>>

(***************************************************************************)
(* strconv.Atoi / strconv.ParseInt(s, 10, 32) on a form value, given as    *)
(* the sequence of its characters.  The result is [ok, val]; ok is FALSE   *)
(* for a syntax error (empty, sign only, non-digit) or a range error.      *)
(***************************************************************************)
DigitValue(c) ==
    CASE c = "0" -> 0 [] c = "1" -> 1 [] c = "2" -> 2 [] c = "3" -> 3
      [] c = "4" -> 4 [] c = "5" -> 5 [] c = "6" -> 6 [] c = "7" -> 7
      [] c = "8" -> 8 [] c = "9" -> 9 [] OTHER -> -1

RECURSIVE ParseDigits(_, _)
ParseDigits(s, acc) ==
    IF s = <<>> THEN [ok |-> TRUE, val |-> acc]
    ELSE LET d == DigitValue(Head(s)) IN
         IF d < 0 THEN [ok |-> FALSE, val |-> 0]
         ELSE IF acc > (MaxInt32 - d) \div 10 THEN [ok |-> FALSE, val |-> MaxInt32]
         ELSE ParseDigits(Tail(s), acc * 10 + d)

ParseInt(s) ==
    IF s = <<>> THEN [ok |-> FALSE, val |-> 0]
    ELSE LET signed == Head(s) \in {"+", "-"}
             digits == IF signed THEN Tail(s) ELSE s
             u      == ParseDigits(digits, 0)
         IN  IF digits = <<>> THEN [ok |-> FALSE, val |-> 0]
             ELSE IF ~u.ok THEN u
             ELSE IF Head(s) = "-" THEN [ok |-> TRUE, val |-> 0 - u.val]
             ELSE u

\* the values of the "weeks" form field that requests are made with
WeeksForms ==
    { <<>>, <<"a", "b", "c">>, <<"0">>, <<"-", "1">>, <<"1">>, <<"2">>,
      <<"8">>, <<"9">> }

\* the values of the "quantity" form field (<<>>: the field is absent)
QuantityForms ==
    { <<>>, <<"x">>, <<"0">>, <<"-", "1">>, <<"1">>, <<"2">>, <<"3">>,
      <<"2", "1", "4", "7", "4", "8", "3", "6", "4", "8">> }

(***************************************************************************)
(* Server.getClientIP.  Header values and addresses are sequences of       *)
(* characters; an absent header is the empty sequence, as Header.Get       *)
(* gives it.                                                               *)
(***************************************************************************)
\* the first index of character c in s at or after index i, 0 if none
RECURSIVE IndexFrom(_, _, _)
IndexFrom(s, c, i) ==
    IF i > Len(s) THEN 0
    ELSE IF s[i] = c THEN i
    ELSE IndexFrom(s, c, i + 1)

\* strings.LastIndexByte, 1-based: the last index of c in s, 0 if none
RECURSIVE LastIndex(_, _, _)
LastIndex(s, c, i) ==
    IF i < 1 THEN 0
    ELSE IF s[i] = c THEN i
    ELSE LastIndex(s, c, i - 1)

\* strings.Split(s, ",")[0]: s up to its first comma
FirstField(s) ==
    IF IndexFrom(s, ",", 1) = 0 THEN s
    ELSE SubSeq(s, 1, IndexFrom(s, ",", 1) - 1)

\* the white space strings.TrimSpace removes
Space == {" ", "\t", "\n", "\r"}

\* strings.TrimSpace
RECURSIVE TrimLeft(_)
TrimLeft(s) ==
    IF s # <<>> /\ Head(s) \in Space THEN TrimLeft(Tail(s)) ELSE s

RECURSIVE TrimRight(_)
TrimRight(s) ==
    IF s # <<>> /\ s[Len(s)] \in Space
    THEN TrimRight(SubSeq(s, 1, Len(s) - 1)) ELSE s

TrimSpace(s) == TrimRight(TrimLeft(s))

\* net.SplitHostPort: [ok, host]; ok is FALSE for an address without port,
\* with too many colons or with misplaced brackets
SplitHostPort(hostport) ==
    LET n   == Len(hostport)
        i   == LastIndex(hostport, ":", n)
        end == IndexFrom(hostport, "]", 1)
        bad == [ok |-> FALSE, host |-> <<>>]
    IN
    IF i = 0 THEN bad
    ELSE IF hostport[1] = "["
    THEN IF end = 0 \/ end + 1 # i THEN bad
         ELSE IF \/ IndexFrom(hostport, "[", 2) # 0
                 \/ IndexFrom(hostport, "]", end + 1) # 0
         THEN bad
         ELSE [ok |-> TRUE, host |-> SubSeq(hostport, 2, end - 1)]
    ELSE IF \/ IndexFrom(SubSeq(hostport, 1, i - 1), ":", 1) # 0
            \/ IndexFrom(hostport, "[", 1) # 0
            \/ IndexFrom(hostport, "]", 1) # 0
    THEN bad
    ELSE [ok |-> TRUE, host |-> SubSeq(hostport, 1, i - 1)]

\* (mutant) the real-client-IP header is looked at first
getClientIPRealIPFirst(xff, xri, remoteAddr) ==
    IF xri # <<>> THEN xri
    ELSE IF xff # <<>> THEN TrimSpace(FirstField(xff))
    ELSE IF SplitHostPort(remoteAddr).ok THEN SplitHostPort(remoteAddr).host
    ELSE remoteAddr

\* Server.getClientIP, given the X-Forwarded-For and X-Real-IP headers and
\* the RemoteAddr of the request
getClientIP(xff, xri, remoteAddr) ==
    IF xff # <<>> THEN TrimSpace(FirstField(xff))
    ELSE IF xri # <<>> THEN xri
    ELSE IF SplitHostPort(remoteAddr).ok THEN SplitHostPort(remoteAddr).host
    ELSE remoteAddr

(***************************************************************************)
(* The Wish helpers.                                                       *)
(***************************************************************************)
RECURSIVE SumQuantity(_)
SumQuantity(rs) ==
    IF rs = <<>> THEN 0 ELSE Head(rs).quantity + SumQuantity(Tail(rs))

\* (mutant) spec.quantity is returned as it is, without the default of 1
GetQuantityNoDefault(w) == w.quantity

\* Wish.GetQuantity: the effective quantity
GetQuantity(w) == IF w.quantity > 0 THEN w.quantity ELSE 1

\* (mutant) only the reservations that expire after the clock count
TotalReservedActiveOnly(w) ==
    SumQuantity(SelectSeq(w.status.reservations,
                          LAMBDA r : r.expiresAt > now))

\* Wish.TotalReserved: every stored reservation counts, expired or not
TotalReserved(w) == SumQuantity(w.status.reservations)

\* (mutant) what is left is not clamped at 0
AvailableQuantityUnclamped(w) == GetQuantity(w) - TotalReserved(w)

\* Wish.AvailableQuantity
AvailableQuantity(w) ==
    IF GetQuantity(w) - TotalReserved(w) < 0 THEN 0
    ELSE GetQuantity(w) - TotalReserved(w)

\* Wish.ActiveReservations, with t the value time.Now() returns: the
\* reservations that expire after t, in their order
ActiveReservations(w, t) ==
    SelectSeq(w.status.reservations, LAMBDA r : r.expiresAt > t)

\* the index of the reservation that expires first among rs[best] and
\* rs[i..Len(rs)]; a later reservation wins only when it expires strictly
\* earlier
RECURSIVE EarliestFrom(_, _, _)
EarliestFrom(rs, i, best) ==
    IF i > Len(rs) THEN best
    ELSE EarliestFrom(rs, i + 1,
                      IF rs[i].expiresAt < rs[best].expiresAt THEN i ELSE best)

\* (mutant) among the reservations that expire first, the last one wins
NextReservationExpiryLastWins(w) ==
    LET rs == w.status.reservations IN
    IF rs = <<>> THEN Nil
    ELSE Some(CHOOSE i \in 1..Len(rs) :
                \A j \in 1..Len(rs) :
                    /\ rs[i].expiresAt <= rs[j].expiresAt
                    /\ (j > i => rs[i].expiresAt < rs[j].expiresAt))

\* Wish.NextReservationExpiry: nil when there is no reservation, else a
\* pointer to the ExpiresAt of the reservation that expires first, given
\* here as the index of that reservation
NextReservationExpiry(w) ==
    IF w.status.reservations = <<>> THEN Nil
    ELSE Some(EarliestFrom(w.status.reservations, 2, 1))

\* (mutant) the item expires at the instant its ttl ends, not after it
IsExpiredAtBoundary(w, t) ==
    IF w.ttl = Nil THEN FALSE
    ELSE t >= w.creationTimestamp + w.ttl[1]

\* Wish.IsExpired, with t the value time.Now() returns
IsExpired(w, t) ==
    IF w.ttl = Nil THEN FALSE
    ELSE t > w.creationTimestamp + w.ttl[1]

\* (mutant) a reservation without an expiry counts as expired
IsReservationExpiredNoExpiry(w, t) ==
    IF ~w.status.reserved THEN FALSE
    ELSE IF w.status.reservationExpires = Nil THEN TRUE
    ELSE t > w.status.reservationExpires[1]

\* Wish.IsReservationExpired, with t the value time.Now() returns
IsReservationExpired(w, t) ==
    IF ~w.status.reserved THEN FALSE
    ELSE IF w.status.reservationExpires = Nil THEN FALSE
    ELSE t > w.status.reservationExpires[1]

(***************************************************************************)
(* Initial state: one stored Wish, created at instant 0, never reconciled   *)
(* and never reserved; the clock shows instant 1.                          *)
(***************************************************************************)
\* the status of an item nobody reserved
InitStatuses ==
    { [reserved |-> FALSE, reservedAt |-> Nil, reservationExpires |-> Nil,
       active |-> FALSE, reservations |-> <<>>] }

\* a handler that has not started
InitReq ==
    [pc |-> "idle", name |-> "", weeksForm |-> <<>>, quantityForm |-> <<>>,
     weeks |-> 0, quantity |-> 0, wish |-> Nil, now |-> Nil,
     err |-> "none", code |-> 0, msg |-> "", available |-> Nil,
     gets |-> 0, updates |-> 0, ctx |-> "live"]

\* a handler that has returned: its response is in resp
DoneReq == [InitReq EXCEPT !.pc = "done"]

\* a reconciler that is not running; gets and updates count the store
\* calls of the invocation, ctx is the state of its context
InitRec ==
    [pc |-> "idle", getErr |-> "none", wish |-> Nil, isActive |-> FALSE,
     nowActive |-> Nil, requeueAfter |-> 0, result |-> Nil,
     gets |-> 0, updates |-> 0, ctx |-> "live"]

\* a request that has not reached the middleware
InitVisit ==
    [pc |-> "idle", xff |-> <<>>, xri |-> <<>>, remoteAddr |-> <<>>,
     ip |-> <<>>, limiter |-> Nil, at |-> Nil, code |-> 0]

\* NewServer(c, namespace, rateLimit, rateBurst): no limiter is stored and
\* no rate.Limiter exists; no request has arrived
InitServer(rateLimits, rateBursts) ==
    /\ srv \in [rateLimit : rateLimits, rateBurst : rateBursts,
                limiters : {<<>>}]
    /\ bucket = <<>>
    /\ mw = [v \in Visits |-> InitVisit]

\* the rate limit and burst the server tests run with
TestRateLimit == 30
TestRateBurst == 10

\* the stored item, the clock, the handlers and the reconciler; no Wish
\* helper has been called from outside them
InitItem(quantities, ttls, statuses) ==
    /\ store \in [resourceVersion : {1}, quantity : quantities,
                  ttl : ttls, creationTimestamp : {0},
                  status : statuses]
    /\ now = 1
    /\ req = [p \in Requests |-> InitReq]
    /\ resp = InitReq
    /\ rec = InitRec
    /\ call = Nil

InitWith(quantities, ttls, statuses) ==
    /\ InitItem(quantities, ttls, statuses)
    /\ InitServer({TestRateLimit}, {TestRateBurst})

(***************************************************************************)
(* The wall clock moves on to a later instant.                             *)
(***************************************************************************)
Tick ==
    /\ \E t \in Instants : t > now /\ now' = t
    /\ UNCHANGED <<store, req, resp, rec, srv, bucket, mw, call>>

(***************************************************************************)
(* The store (client.Client backed by the API server).                     *)
(***************************************************************************)
\* (mutant) a Get that leaves out the reservations expired at the clock
GetActiveOnly ==
    [store EXCEPT !.status.reservations = ActiveReservations(store, now)]

\* client.Get copies the stored object, resourceVersion included
Get == store

\* (mutant) an item that is not active is not found
GetErrorInactiveNotFound(name, getFails) ==
    IF getFails THEN "error"
    ELSE IF name # WishName \/ ~store.status.active THEN "notfound"
    ELSE "none"

\* client.Get fails with a store error, with not-found, or succeeds
GetError(name, getFails) ==
    IF getFails THEN "error"
    ELSE IF name # WishName THEN "notfound"
    ELSE "none"

\* the errors of a context that is done
ContextErrors == {"deadline", "canceled"}

\* the error a store call made with a context in state ctx returns, when
\* the store would return err: a call with a done context fails with the
\* error of the context and has no effect
CallError(ctx, err) == IF ctx \in ContextErrors THEN ctx ELSE err

\* (mutant) an update that is accepted whatever version it was computed from
UpdateNeverConflicts(wish) == FALSE

\* Status().Update is rejected with a conflict when the object it is given
\* does not carry the stored resourceVersion
UpdateConflicts(wish) == wish.resourceVersion # store.resourceVersion

\* an accepted Status().Update replaces the stored status (the status
\* subresource leaves metadata and spec alone) and gives a new version
StatusUpdate(wish) ==
    [store EXCEPT !.status = wish.status,
                  !.resourceVersion = store.resourceVersion + 1]

(***************************************************************************)
(* Server.handleReserve.  req[p] is the handler of the p-th request; the   *)
(* requests are numbered in the order their handlers start.  A handler     *)
(* that returns leaves its response (with the request it answers) in resp. *)
(***************************************************************************)
\* http.Error(w, msg, code) followed by return
HttpError(r, code, msg, available) ==
    [r EXCEPT !.pc = "done", !.code = code, !.msg = msg,
              !.available = available, !.wish = Nil, !.now = Nil]

\* (mutant) the upper limit of the weeks range is not checked
WeeksInvalidNoMax(weeks) == ~weeks.ok \/ weeks.val < minWeeks

\* the test made on the parsed "weeks" form value
WeeksInvalid(weeks) ==
    ~weeks.ok \/ weeks.val < minWeeks \/ weeks.val > maxWeeks

\* (mutant) a quantity of 0 passes
QuantityInvalidAllowsZero(q) == ~q.ok \/ q.val < 0

\* the test made on the parsed "quantity" form value, when it is present
QuantityInvalid(q) == ~q.ok \/ q.val < 1

\* (mutant) a failed Get always answers 500
GetErrorResponseAlways500(r, err) ==
    HttpError([r EXCEPT !.err = err],
              StatusInternalServerError, "err_get_wish", Nil)

\* the answer to a failed Get
GetErrorResponse(r, err) ==
    IF err = "notfound"
    THEN HttpError([r EXCEPT !.err = err],
                   StatusNotFound, "err_not_found", Nil)
    ELSE HttpError([r EXCEPT !.err = err],
                   StatusInternalServerError, "err_get_wish", Nil)

\* (mutant) a request for all that is left is rejected too
CapacityErrorOffByOne(quantity, available) ==
    IF available = 0 THEN "err_fully_reserved"
    ELSE IF quantity >= available THEN "err_quantity_exceeds"
    ELSE "none"

\* (mutant) an item with nothing left is reported as a too large request
CapacityErrorNoFullCheck(quantity, available) ==
    IF quantity > available THEN "err_quantity_exceeds"
    ELSE "none"

\* (mutant) the request is not compared with what is left
CapacityErrorNoExceedsCheck(quantity, available) ==
    IF available = 0 THEN "err_fully_reserved"
    ELSE "none"

\* the capacity check: the error the request is rejected with, or "none"
CapacityError(quantity, available) ==
    IF available = 0 THEN "err_fully_reserved"
    ELSE IF quantity > available THEN "err_quantity_exceeds"
    ELSE "none"

\* (mutant) the reservation lasts weeks days instead of weeks weeks
NewReservationDays(quantity, t, weeks) ==
    [quantity |-> quantity, createdAt |-> t, expiresAt |-> t + weeks * 24]

\* the Reservation appended at server.go:167
NewReservation(quantity, t, weeks) ==
    [quantity |-> quantity, createdAt |-> t,
     expiresAt |-> t + WeeksDuration(weeks)]

\* the handler's state after lines 100-171: the form is parsed and
\* validated, the item is read, capacity is checked, the reservation built.
\* getFails: the store fails the Get with an error other than not-found.
Reserve(r, name, weeksForm, quantityForm, getFails) ==
    LET weeks == ParseInt(weeksForm)
        q     == ParseInt(quantityForm)
        r0    == [r EXCEPT !.name = name, !.weeksForm = weeksForm,
                           !.quantityForm = quantityForm]
    IN
    IF WeeksInvalid(weeks)
    THEN HttpError(r0, StatusBadRequest, "err_weeks_range", Nil)
    ELSE IF quantityForm # <<>> /\ QuantityInvalid(q)
    THEN HttpError(r0, StatusBadRequest, "err_invalid_quantity", Nil)
    ELSE
    LET quantity == IF quantityForm # <<>> THEN q.val ELSE 1
        r1 == [r0 EXCEPT !.weeks = weeks.val, !.quantity = quantity,
                         !.gets = @ + 1]
        err == CallError(r.ctx, GetError(name, getFails))
    IN
    IF err # "none"
    THEN GetErrorResponse(r1, err)
    ELSE
    LET wish      == Get
        available == AvailableQuantity(wish)
        capacity  == CapacityError(quantity, available)
    IN
    IF capacity = "err_fully_reserved"
    THEN HttpError(r1, StatusConflict, capacity, Nil)
    ELSE IF capacity = "err_quantity_exceeds"
    THEN HttpError(r1, StatusBadRequest, capacity, Some(available))
    ELSE [r1 EXCEPT !.pc = "update", !.now = Some(now),
              !.wish = Some([wish EXCEPT !.status.reservations =
                  Append(@, NewReservation(quantity, now, r1.weeks))])]

\* handleReserve from its entry to the call of Status().Update
handleReserve(p, name, weeksForm, quantityForm, getFails) ==
    /\ req[p].pc = "idle"
    /\ IF p = 1 THEN TRUE ELSE req[p - 1].pc # "idle"
    /\ LET r == Reserve(req[p], name, weeksForm, quantityForm, getFails)
       IN  IF r.pc = "done"
           THEN req' = [req EXCEPT ![p] = DoneReq] /\ resp' = r
           ELSE req' = [req EXCEPT ![p] = r] /\ UNCHANGED resp
    /\ UNCHANGED <<store, now, rec, srv, bucket, mw, call>>

\* handleReserve from s.client.Status().Update to its return.
\* updateFails: the store fails the update with an error other than conflict.
handleReserveUpdate(p, updateFails) ==
    /\ req[p].pc = "update"
    /\ LET wish == req[p].wish[1]
           r0   == [req[p] EXCEPT !.updates = @ + 1]
       IN
       IF CallError(r0.ctx, "none") # "none" \/ updateFails
       THEN /\ resp' = HttpError([r0 EXCEPT !.err = CallError(r0.ctx, "error")],
                             StatusInternalServerError, "err_reserve_failed", Nil)
            /\ UNCHANGED store
       ELSE IF UpdateConflicts(wish)
       THEN /\ resp' = HttpError([r0 EXCEPT !.err = "conflict"],
                             StatusInternalServerError, "err_reserve_failed", Nil)
            /\ UNCHANGED store
       ELSE /\ store' = StatusUpdate(wish)
            /\ resp' = [r0 EXCEPT !.pc = "done", !.code = StatusOK, !.msg = "ok",
                                  !.wish = Nil, !.now = Nil]
    /\ req' = [req EXCEPT ![p] = DoneReq]
    /\ UNCHANGED <<now, rec, srv, bucket, mw, call>>

(***************************************************************************)
(* Server.rateLimitMiddleware, the handler Server.Handler returns.  mw[v]  *)
(* is the middleware of the v-th request; the requests are numbered in the *)
(* order they arrive.  srv.limiters is the sync.Map of the server, from    *)
(* client identity to limiter; bucket holds the rate.Limiter objects, each *)
(* named by the request that created it.  A rate.Limiter is a token bucket *)
(* of size burst, full when created and refilled at limit tokens a second. *)
(***************************************************************************)
\* rate.NewLimiter(rate.Limit(s.rateLimit), s.rateBurst)
NewLimiter(limit, burst) ==
    [limit |-> limit, burst |-> burst, tokens |-> burst, last |-> 0]

\* the tokens in limiter l at instant t (instants are hours)
Advance(l, t) ==
    IF l.tokens + (t - l.last) * 3600 * l.limit > l.burst THEN l.burst
    ELSE l.tokens + (t - l.last) * 3600 * l.limit

\* rate.Limiter.Allow() at instant t: whether the event may happen now
Allowed(l, t) == l.burst >= 1 /\ Advance(l, t) >= 1

\* (mutant) an allowed event takes no token
AfterAllowNoToken(l, t) == l

\* rate.Limiter.Allow() at instant t: the limiter after the call
AfterAllow(l, t) ==
    IF Allowed(l, t)
    THEN [l EXCEPT !.tokens = Advance(l, t) - 1, !.last = t]
    ELSE l

\* (mutant) the middleware does not return after it answered 429
MiddlewareNextNoReturn(allowed) == "next"

\* where the middleware goes on after Allow(): to next.ServeHTTP, or it
\* returns ("rejected")
MiddlewareNext(allowed) == IF allowed THEN "next" ELSE "rejected"

\* rateLimitMiddleware from its entry to the end of the Load of getLimiter:
\* the client identity is computed and looked up in the map; when it has no
\* limiter a new one is made.
rateLimitMiddleware(v, xff, xri, remoteAddr) ==
    /\ mw[v].pc = "idle"
    /\ IF v = 1 THEN TRUE ELSE mw[v - 1].pc # "idle"
    /\ LET ip == getClientIP(xff, xri, remoteAddr)
           m0 == [mw[v] EXCEPT !.xff = xff, !.xri = xri,
                               !.remoteAddr = remoteAddr, !.ip = ip]
       IN
       IF ip \in DOMAIN srv.limiters
       THEN /\ mw' = [mw EXCEPT ![v] =
                        [m0 EXCEPT !.pc = "allow",
                                   !.limiter = Some(srv.limiters[ip])]]
            /\ UNCHANGED bucket
       ELSE /\ mw' = [mw EXCEPT ![v] =
                        [m0 EXCEPT !.pc = "store", !.limiter = Some(v)]]
            /\ bucket' = (v :> NewLimiter(srv.rateLimit, srv.rateBurst))
                             @@ bucket
    /\ UNCHANGED <<store, now, req, resp, rec, srv, call>>

\* getLimiter from s.limiters.Store(ip, limiter) to its return
getLimiterStore(v) ==
    /\ mw[v].pc = "store"
    /\ srv' = [srv EXCEPT !.limiters = (mw[v].ip :> mw[v].limiter[1]) @@ @]
    /\ mw' = [mw EXCEPT ![v].pc = "allow"]
    /\ UNCHANGED <<store, now, req, resp, rec, bucket, call>>

\* rateLimitMiddleware from limiter.Allow() to the call of next.ServeHTTP,
\* or to its return after http.Error(w, ..., http.StatusTooManyRequests)
limiterAllow(v) ==
    /\ mw[v].pc = "allow"
    /\ LET id      == mw[v].limiter[1]
           allowed == Allowed(bucket[id], now)
       IN
       /\ bucket' = [bucket EXCEPT ![id] = AfterAllow(@, now)]
       /\ mw' = [mw EXCEPT ![v].pc = MiddlewareNext(allowed),
                           ![v].at = Some(now),
                           ![v].code = IF allowed THEN 0
                                       ELSE StatusTooManyRequests]
       /\ IF allowed \/ v \notin Requests
          THEN UNCHANGED <<req, resp>>
          ELSE /\ resp' = HttpError(InitReq, StatusTooManyRequests,
                                    "err_rate_limit", Nil)
               /\ req' = IF mw'[v].pc = "next" THEN req
                         ELSE [req EXCEPT ![v] = DoneReq]
    /\ UNCHANGED <<store, now, rec, srv, call>>

(***************************************************************************)
(* WishReconciler.Reconcile.  controller-runtime runs at most one          *)
(* Reconcile of a given object at a time.  rec keeps, after a return, the  *)
(* returned result, the outcome of the Get and the clock value the active  *)
(* flag was decided on.                                                    *)
(***************************************************************************)
\* ctrl.Result{RequeueAfter: d} and the error returned with it
Result(d, err) == Some([requeueAfter |-> d, err |-> err])

\* (mutant) a Get that finds no item is returned as an error
ReconcileGetErrorNoNotFound(err) == Result(0, "error")

\* (mutant) a failed Get is not returned as an error
ReconcileGetErrorSwallowed(err) == Result(0, "none")

\* what Reconcile returns when its Get fails: nothing for an item that is
\* not found, the error otherwise
ReconcileGetError(err) ==
    IF err = "notfound" THEN Result(0, "none") ELSE Result(0, err)

\* (mutant) the status is written by every Reconcile
StatusChangedAlways(activeChanged, reservationExpired) == TRUE

\* statusChanged before the update: set when the active flag was changed
\* and when the expired legacy reservation was cleared
StatusChanged(activeChanged, reservationExpired) ==
    activeChanged \/ reservationExpired

\* Reconcile from its entry to the status update (or to its return when the
\* status did not change).  t1..t4 are the values of the four clock reads:
\* IsExpired, time.Until(expiresAt), IsReservationExpired,
\* time.Until(ReservationExpires).
Reconcile(name, getFails, t1, t2, t3, t4) ==
    /\ rec.pc = "idle"
    /\ now <= t1 /\ t1 <= t2 /\ t2 <= t3 /\ t3 <= t4
    /\ now' = t4
    /\ LET r0  == [InitRec EXCEPT !.gets = 1]
           err == CallError(rec.ctx, GetError(name, getFails))
       IN
       IF err # "none"
       THEN rec' = [r0 EXCEPT !.getErr = err, !.result = ReconcileGetError(err)]
       ELSE
       LET wish     == Get
           isActive == ~IsExpired(wish, t1)
           activeChanged == wish.status.active # isActive
           w1 == IF activeChanged
                 THEN [wish EXCEPT !.status.active = isActive] ELSE wish
           ttlRemaining ==
                 IF wish.ttl = Nil THEN 0
                 ELSE wish.creationTimestamp + wish.ttl[1] - t2
           requeue1 ==
                 IF isActive /\ wish.ttl # Nil /\ ttlRemaining > 0
                 THEN ttlRemaining ELSE 0
           reservationExpired == IsReservationExpired(w1, t3)
           w2 == IF reservationExpired
                 THEN [w1 EXCEPT !.status.reserved = FALSE,
                                 !.status.reservedAt = Nil,
                                 !.status.reservationExpires = Nil]
                 ELSE w1
           reservationRemaining ==
                 IF w2.status.reservationExpires = Nil THEN 0
                 ELSE w2.status.reservationExpires[1] - t4
           requeue2 ==
                 IF /\ w2.status.reserved
                    /\ w2.status.reservationExpires # Nil
                    /\ reservationRemaining > 0
                    /\ (requeue1 = 0 \/ reservationRemaining < requeue1)
                 THEN reservationRemaining ELSE requeue1
           statusChanged == StatusChanged(activeChanged, reservationExpired)
           r1 == [r0 EXCEPT !.isActive = isActive, !.nowActive = Some(t1)]
       IN
       IF statusChanged
       THEN rec' = [r1 EXCEPT !.pc = "update", !.wish = Some(w2),
                              !.requeueAfter = requeue2]
       ELSE rec' = [r1 EXCEPT !.result = Result(requeue2, "none")]
    /\ UNCHANGED <<store, req, resp, srv, bucket, mw, call>>

\* Reconcile from r.Status().Update to its return
ReconcileUpdate(updateFails) ==
    /\ rec.pc = "update"
    /\ LET wish == rec.wish[1]
           r0   == [rec EXCEPT !.pc = "idle", !.wish = Nil, !.requeueAfter = 0,
                               !.updates = @ + 1, !.ctx = "live"]
       IN
       IF CallError(rec.ctx, "none") # "none" \/ updateFails
       THEN /\ rec' = [r0 EXCEPT !.result = Result(0, CallError(rec.ctx, "error"))]
            /\ UNCHANGED store
       ELSE IF UpdateConflicts(wish)
       THEN /\ rec' = [r0 EXCEPT !.result = Result(0, "conflict")]
            /\ UNCHANGED store
       ELSE /\ store' = StatusUpdate(wish)
            /\ rec' = [r0 EXCEPT !.result = Result(rec.requeueAfter, "none")]
    /\ UNCHANGED <<now, req, resp, srv, bucket, mw, call>>

(***************************************************************************)
(* Specification of concurrent admissions and reconciliations of one item. *)
(***************************************************************************)
\* the form values the concurrent requests are made with
SomeWeeksForms == { <<"2">> }
SomeQuantityForms == { <<>>, <<"3">> }

Init == InitWith(InitQuantities, InitTTLs, InitStatuses)

Next ==
    \/ Tick
    \/ \E p \in Requests, weeksForm \in SomeWeeksForms,
          quantityForm \in SomeQuantityForms, getFails \in BOOLEAN :
            handleReserve(p, WishName, weeksForm, quantityForm, getFails)
    \/ \E p \in Requests, updateFails \in BOOLEAN :
            handleReserveUpdate(p, updateFails)
    \/ \E name \in Names, getFails \in BOOLEAN,
          t1 \in Instants, t2 \in Instants, t3 \in Instants, t4 \in Instants :
            Reconcile(name, getFails, t1, t2, t3, t4)
    \/ \E updateFails \in BOOLEAN : ReconcileUpdate(updateFails)

Spec == Init /\ [][Next]_vars

(***************************************************************************)
(* Specification of the requests handled one after the other, made with    *)
(* every form value and name.                                              *)
(***************************************************************************)
\* spec.quantity of the stored item
FormsQuantities == {0, 2, 5}

InitForms == InitWith(FormsQuantities, {Nil}, InitStatuses)

NextForms ==
    \/ \E p \in Requests, name \in Names, weeksForm \in WeeksForms,
          quantityForm \in QuantityForms, getFails \in BOOLEAN :
            /\ \A o \in Requests : req[o].pc # "update"
            /\ handleReserve(p, name, weeksForm, quantityForm, getFails)
    \/ \E p \in Requests, updateFails \in BOOLEAN :
            handleReserveUpdate(p, updateFails)

SpecForms == InitForms /\ [][NextForms]_vars

(***************************************************************************)
(* Specification of the reconciler running, next to the admissions, on an  *)
(* item that already holds reservations when the operator starts: the      *)
(* statuses are written with Status().Update as the controller tests do    *)
(* (wish_controller.go:275-279, 414-427).                                  *)
(***************************************************************************)
\* a reservation list of which the first element expires before the second
MixedReservations ==
    << [quantity |-> 2, createdAt |-> 0, expiresAt |-> 24],
       [quantity |-> 3, createdAt |-> 0, expiresAt |-> 48] >>

\* an item reserved in the legacy format
LegacyStatuses ==
    { [reserved |-> TRUE, reservedAt |-> Some(0),
       reservationExpires |-> Some(24),
       active |-> FALSE, reservations |-> <<>>] }

\* an item with two reservations, and one reserved in the legacy format
SweepStatuses ==
    { [reserved |-> FALSE, reservedAt |-> Nil, reservationExpires |-> Nil,
       active |-> FALSE, reservations |-> MixedReservations] }
    \cup LegacyStatuses

\* spec.quantity of the stored item
SweepQuantities == {10}

InitSweep == InitWith(SweepQuantities, InitTTLs, SweepStatuses)

SpecSweep == InitSweep /\ [][Next]_vars

\* the item reserved in the legacy format, with a ttl
InitLegacy == InitWith(SweepQuantities, {Some(24)}, LegacyStatuses)

SpecLegacy == InitLegacy /\ [][Next]_vars

(***************************************************************************)
(* Specification of the reconciler alone under fair scheduling.  The       *)
(* controller runs Reconcile on the add event of the item, on every update *)
(* of it, when a returned RequeueAfter has elapsed and again after an      *)
(* error; here Reconcile may run at any time and keeps running (which      *)
(* includes all of these), the clock keeps advancing up to the last        *)
(* instant, and a status update that is tried again and again is           *)
(* eventually not failed by the store.                                     *)
(***************************************************************************)
NextSweep ==
    \/ Tick
    \/ \E name \in Names, getFails \in BOOLEAN,
          t1 \in Instants, t2 \in Instants, t3 \in Instants, t4 \in Instants :
            Reconcile(name, getFails, t1, t2, t3, t4)
    \/ \E updateFails \in BOOLEAN : ReconcileUpdate(updateFails)

FairSweep ==
    /\ InitSweep
    /\ [][NextSweep]_vars
    /\ WF_vars(Tick)
    /\ WF_vars(\E t1 \in Instants, t2 \in Instants,
                  t3 \in Instants, t4 \in Instants :
                    Reconcile(WishName, FALSE, t1, t2, t3, t4))
    /\ SF_vars(ReconcileUpdate(FALSE))

(***************************************************************************)
(* Specification of the reconciler and the clock on an item reserved in    *)
(* the legacy format, with and without an expiry of the reservation        *)
(* (wish_types_test.go:96-141).                                            *)
(***************************************************************************)
\* the item is reserved in the legacy format: until instant 24, or with no
\* expiry set
NoExpiryStatuses ==
    { [reserved |-> TRUE, reservedAt |-> Some(0), reservationExpires |-> Nil,
       active |-> FALSE, reservations |-> <<>>] }
    \cup LegacyStatuses

InitNoExpiry == InitWith(SweepQuantities, InitTTLs, NoExpiryStatuses)

SpecNoExpiry == InitNoExpiry /\ [][NextSweep]_vars

(***************************************************************************)
(* Specification of the requests passing one after the other through the   *)
(* rate-limit middleware (TestServer_RateLimiting sets rateLimit = 1 and   *)
(* rateBurst = 2); the reservation requests it lets pass are handled.      *)
(***************************************************************************)
\* refill rates (tokens per second) and burst sizes of the server
RateLimits == {1}
RateBursts == {1, 2}

\* the X-Forwarded-For and X-Real-IP headers and the RemoteAddr the
\* requests arrive with: two clients, one of them behind a proxy at times
LimitHeaders ==
    { <<<<>>, <<>>, <<"1", ":", "8">>>>,
      <<<<"1", ",", "3">>, <<>>, <<"3", ":", "8">>>>,
      <<<<>>, <<>>, <<"2", ":", "8">>>> }

\* no request is inside the middleware or inside handleReserve
ServerIdle ==
    \A u \in Visits :
        /\ mw[u].pc \notin {"store", "allow"}
        /\ (u \in Requests /\ mw[u].pc = "next") => req[u].pc = "done"

InitLimit ==
    /\ InitItem({5}, {Nil}, InitStatuses)
    /\ InitServer(RateLimits, RateBursts)

NextLimit ==
    \/ Tick
    \/ \E v \in Visits, h \in LimitHeaders :
            /\ ServerIdle
            /\ rateLimitMiddleware(v, h[1], h[2], h[3])
    \/ \E v \in Visits : getLimiterStore(v)
    \/ \E v \in Visits : limiterAllow(v)
    \/ \E p \in Requests, weeksForm \in SomeWeeksForms,
          quantityForm \in SomeQuantityForms :
            /\ mw[p].pc = "next"
            /\ handleReserve(p, WishName, weeksForm, quantityForm, FALSE)
    \/ \E p \in Requests : handleReserveUpdate(p, FALSE)

SpecLimit == InitLimit /\ [][NextLimit]_vars

(***************************************************************************)
(* Specification of the client identity: one request arrives with every    *)
(* combination of the two headers and the peer address.                    *)
(***************************************************************************)
\* X-Forwarded-For: absent, one address, a list with spaces, a list whose
\* first value is empty or blank
XForwardedFors ==
    { <<>>, <<"1">>, <<" ", "1", " ", ",", "2">>, <<"2", ",", " ", "1">>,
      <<",", "2">>, <<" ", ",", "2">> }

\* X-Real-IP: absent, an address, an address after a space
XRealIPs == { <<>>, <<"3">>, <<" ", "3">> }

\* RemoteAddr: host:port, a host alone, [ipv6]:port, an ipv6 host alone
RemoteAddrs ==
    { <<"4", ":", "8">>, <<"4">>, <<"[", ":", ":", "1", "]", ":", "8">>,
      <<":", ":", "1">> }

NextIdentity ==
    \/ \E xff \in XForwardedFors, xri \in XRealIPs,
          remoteAddr \in RemoteAddrs :
            rateLimitMiddleware(1, xff, xri, remoteAddr)
    \/ getLimiterStore(1)
    \/ limiterAllow(1)

SpecIdentity == InitLimit /\ [][NextIdentity]_vars

(***************************************************************************)
(* Specification of the middleware run by concurrent requests: net/http    *)
(* serves every connection in a goroutine of its own, so the Load, the     *)
(* Store and the Allow of different requests interleave.  No time elapses. *)
(***************************************************************************)
NextRace ==
    \/ \E v \in Visits, h \in LimitHeaders :
            rateLimitMiddleware(v, h[1], h[2], h[3])
    \/ \E v \in Visits : getLimiterStore(v)
    \/ \E v \in Visits : limiterAllow(v)

SpecRace == InitLimit /\ [][NextRace]_vars

(***************************************************************************)
(* Specification of the Wish helpers called on an item from outside the    *)
(* handlers, as the unit tests of the API types call them.  call keeps the *)
(* helper called last and the value it returned.                           *)
(***************************************************************************)
\* spec.quantity of the items the helpers are called on
HelperQuantities == {-1, 0, 1, 2, 3, 5}

\* a stored reservation of quantity q that expires at e
HelperReservation(q, e) == [quantity |-> q, createdAt |-> 0, expiresAt |-> e]

\* the reservation lists of the items: none, one, several (the second of
\* 48, 12, 24 expires first, as of the test's 2h, 30m, 1h) and lists of
\* which the earliest expiry is shared
HelperReservations ==
    { <<>>,
      << HelperReservation(2, 24) >>,
      << HelperReservation(3, 24) >>,
      << HelperReservation(2, 24), HelperReservation(1, 24) >>,
      << HelperReservation(2, 48), HelperReservation(3, 12),
         HelperReservation(1, 24) >>,
      << HelperReservation(1, 48), HelperReservation(2, 12),
         HelperReservation(1, 12) >> }

HelperStatuses ==
    [reserved : {FALSE}, reservedAt : {Nil}, reservationExpires : {Nil},
     active : {FALSE}, reservations : HelperReservations]

InitHelpers == InitWith(HelperQuantities, {Nil}, HelperStatuses)

\* the helper fn is called on the item and returns result
CallHelper(fn, result) ==
    /\ call' = Some([fn |-> fn, result |-> result])
    /\ UNCHANGED <<store, now, req, resp, rec, srv, bucket, mw>>

TestWish_GetQuantity == CallHelper("GetQuantity", GetQuantity(store))

TestWish_TotalReserved == CallHelper("TotalReserved", TotalReserved(store))

TestWish_AvailableQuantity ==
    CallHelper("AvailableQuantity", AvailableQuantity(store))

TestWish_NextReservationExpiry ==
    CallHelper("NextReservationExpiry", NextReservationExpiry(store))

NextHelpers ==
    \/ TestWish_GetQuantity
    \/ TestWish_TotalReserved
    \/ TestWish_AvailableQuantity
    \/ TestWish_NextReservationExpiry

SpecHelpers == InitHelpers /\ [][NextHelpers]_vars

(***************************************************************************)
(* Specification of the requests handled one after the other while the     *)
(* clock moves on, on an item that may already hold a reservation, made    *)
(* with valid and invalid form values, large quantities included           *)
(* (server_test.go:338-434).                                               *)
(***************************************************************************)
\* spec.quantity of the stored item
CapacityQuantities == {0, 5}

\* the item holds nothing, or one reservation of 3 that expires at instant 24
CapacityStatuses ==
    [reserved : {FALSE}, reservedAt : {Nil}, reservationExpires : {Nil},
     active : {TRUE},
     reservations : { <<>>, << HelperReservation(3, 24) >> }]

\* the form values of the requests
CapacityWeeksForms == { <<"4">>, <<"9">> }
CapacityQuantityForms == { <<"3">>, <<"1", "0", "0">> }

InitCapacity == InitWith(CapacityQuantities, {Nil}, CapacityStatuses)

NextCapacity ==
    \/ Tick
    \/ \E p \in Requests, weeksForm \in CapacityWeeksForms,
          quantityForm \in CapacityQuantityForms :
            /\ \A o \in Requests : req[o].pc # "update"
            /\ handleReserve(p, WishName, weeksForm, quantityForm, FALSE)
    \/ \E p \in Requests : handleReserveUpdate(p, FALSE)

SpecCapacity == InitCapacity /\ [][NextCapacity]_vars

(***************************************************************************)
(* Specification of the admissions and the reconciler run with contexts    *)
(* that the caller may cancel and whose deadline may pass: the handler     *)
(* hands r.Context(), and Reconcile its ctx, to every store call.          *)
(***************************************************************************)
\* the context of request p is done for the reason why (its deadline has
\* passed or the caller has cancelled) before the next store call of the
\* handler
ContextDone(p, why) ==
    /\ req[p].pc \in {"idle", "update"}
    /\ IF p = 1 THEN TRUE ELSE req[p - 1].pc # "idle"
    /\ req[p].ctx = "live"
    /\ req' = [req EXCEPT ![p].ctx = why]
    /\ UNCHANGED <<store, now, resp, rec, srv, bucket, mw, call>>

\* the context of the running (or of the next) Reconcile is done before
\* its next store call
ReconcileContextDone(why) ==
    /\ rec.ctx = "live"
    /\ rec' = [rec EXCEPT !.ctx = why]
    /\ UNCHANGED <<store, now, req, resp, srv, bucket, mw, call>>

InitContext == InitWith({5}, {Nil}, InitStatuses)

NextContext ==
    \/ \E p \in Requests, why \in ContextErrors : ContextDone(p, why)
    \/ \E why \in ContextErrors : ReconcileContextDone(why)
    \/ \E p \in Requests, quantityForm \in SomeQuantityForms,
          getFails \in BOOLEAN :
            handleReserve(p, WishName, <<"2">>, quantityForm, getFails)
    \/ \E p \in Requests, updateFails \in BOOLEAN :
            handleReserveUpdate(p, updateFails)
    \/ \E getFails \in BOOLEAN :
            Reconcile(WishName, getFails, now, now, now, now)
    \/ \E updateFails \in BOOLEAN : ReconcileUpdate(updateFails)

SpecContext == InitContext /\ [][NextContext]_vars

(***************************************************************************)
(* Steps of a handler, for the properties below.                           *)
(***************************************************************************)
\* request p is answered in this step
Answered(p) == req[p].pc # "done" /\ req'[p].pc = "done"

\* the handler of request p starts in this step
Started(p) == req[p].pc = "idle" /\ req'[p].pc # "idle"

\* the handler of request p after the step it started in
AfterStart(p) == IF req'[p].pc = "done" THEN resp' ELSE req'[p]

\* the step is the accepted status update of request p
Admitted(p) == req[p].pc = "update" /\ Answered(p) /\ resp'.code = StatusOK

\* a Reconcile of an existing item returns without error in this step
ReconcileReturned ==
    /\ rec' # rec
    /\ rec'.pc = "idle"
    /\ rec'.result # Nil
    /\ rec'.nowActive # Nil
    /\ rec'.result[1].err = "none"

\* the clock values a Reconcile that returns in this step can have read
ReconcileClock ==
    { t \in Instants : rec'.nowActive[1] <= t /\ t <= now' }

\* the stored item holds a legacy single reservation that is unexpired
\* (expired) at every clock value the returning Reconcile can have read
LegacyUnexpired ==
    /\ store.status.reserved
    /\ store.status.reservationExpires # Nil
    /\ \A t \in ReconcileClock : t < store.status.reservationExpires[1]

LegacyExpired ==
    /\ store.status.reserved
    /\ store.status.reservationExpires # Nil
    /\ \A t \in ReconcileClock : t > store.status.reservationExpires[1]

\* the three legacy fields of a status are cleared
LegacyCleared(status) ==
    /\ ~status.reserved
    /\ status.reservedAt = Nil
    /\ status.reservationExpires = Nil

\* the expiries of the reservations a status holds, in either format
ReservationExpiries(status) ==
    { status.reservations[i].expiresAt : i \in DOMAIN status.reservations }
    \cup (IF status.reserved /\ status.reservationExpires # Nil
          THEN {status.reservationExpires[1]} ELSE {})

\* the positive candidates of the wake delay of item w whose active flag is
\* isActive: the time from ta to the end of the ttl, and the times from tb
\* to the expiries of its reservations
WakeCandidates(w, isActive, ta, tb) ==
    { d \in (IF isActive /\ w.ttl # Nil
             THEN {w.creationTimestamp + w.ttl[1] - ta} ELSE {})
            \cup { e - tb : e \in ReservationExpiries(w.status) } : d > 0 }

\* the least element of a set of delays, zero when there is none
MinOrZero(S) ==
    IF S = {} THEN 0 ELSE CHOOSE x \in S : \A y \in S : x <= y

\* the earlier requests of the client identity of request v
EarlierRequests(v) ==
    { u \in Visits : u < v /\ mw[u].at # Nil /\ mw[u].ip = mw[v].ip }

\* f is the first of the comma-separated values of header value s
IsFirstValue(f, s) ==
    \E k \in 0..Len(s) :
        /\ f = SubSeq(s, 1, k)
        /\ \A i \in 1..k : s[i] # ","
        /\ k = Len(s) \/ s[k + 1] = ","

\* t is s without the white space at its two ends
IsTrimmed(t, s) ==
    /\ t # <<>> => t[1] \notin Space /\ t[Len(t)] \notin Space
    /\ \E i \in 1..(Len(s) + 1) :
          /\ Len(t) <= Len(s) + 1 - i
          /\ t = SubSeq(s, i, i + Len(t) - 1)
          /\ \A j \in 1..Len(s) :
                (j < i \/ j >= i + Len(t)) => s[j] \in Space

\* h is the host part of peer address a, which ends with a port: a is
\* h:port, or [h]:port
IsHostOf(h, a) ==
    \E k \in 1..Len(a) :
        /\ a[k] = ":"
        /\ \A i \in (k + 1)..Len(a) : a[i] \notin {":", "[", "]"}
        /\ \/ /\ h = SubSeq(a, 1, k - 1)
              /\ \A i \in 1..(k - 1) : a[i] \notin {":", "[", "]"}
           \/ /\ k > 2
              /\ a[1] = "[" /\ a[k - 1] = "]"
              /\ h = SubSeq(a, 2, k - 2)
              /\ \A i \in 2..(k - 2) : a[i] \notin {"[", "]"}

\* peer address a has a port
HasPort(a) == \E h \in {SubSeq(a, i, j) : i \in 1..2, j \in 0..Len(a)} :
                 IsHostOf(h, a)

\* the form values that name an integer in 1..8, and an integer >= 1
ValidWeeksForms == { <<"1">>, <<"2">>, <<"8">> }
ValidQuantityForms == { <<"1">>, <<"2">>, <<"3">> }

(***************************************************************************)
(* Properties.                                                             *)
(***************************************************************************)
\* C1: for any interleaving of reservation requests and reconciliations of
\* an item, the stored reservation quantities never sum to more than the
\* item's effective quantity, and every accepted admission adds its
\* quantity to that sum: two admissions that passed the capacity check on
\* the same data are not both accepted.
C1_NoOverbooking ==
    [][/\ TotalReserved(store') <= GetQuantity(store')
       /\ \A p \in Requests : Admitted(p) =>
             TotalReserved(store') = TotalReserved(store) + req[p].quantity]_vars

\* two admissions passed the capacity check on the same snapshot, one is
\* stored and the write of the other would overbook the item
C1_Witness ==
    \E p \in Requests :
        /\ req[p].pc = "update"
        /\ UpdateConflicts(req[p].wish[1])
        /\ TotalReserved(store) + req[p].quantity > GetQuantity(store)

\* C2: an admission whose conditional update is rejected with a version
\* conflict retries from the re-read step; one conflict does not fail it.
C2_ConflictIsRetried == resp.err = "conflict" => resp.gets > 1

\* C3: every write of an admission is based on the read of the same
\* attempt, and the capacity check holds on what is stored at the write:
\* the stored list becomes the list read (still the stored one) plus the
\* new reservation, and the quantity fits in what is available.
C3_WriteOnFreshCheckedRead ==
    [][\A p \in Requests : Admitted(p) =>
          LET wish == req[p].wish[1] IN
          /\ req[p].gets = req[p].updates + 1
          /\ wish.resourceVersion = store.resourceVersion
          /\ AvailableQuantity(store) # 0
          /\ req[p].quantity <= AvailableQuantity(store)
          /\ SubSeq(store'.status.reservations, 1,
                    Len(store.status.reservations)) = store.status.reservations
          /\ Len(store'.status.reservations) =
                 Len(store.status.reservations) + 1]_vars

\* an admission is stored after another one
C3_Witness ==
    /\ resp.code = StatusOK
    /\ Len(store.status.reservations) = 2

\* C4: a successful admission of q lowers AvailableQuantity by exactly q; a
\* request for more than is left (and something is left) is answered 400
\* "quantity exceeds" with the amount left, and the stored item is unchanged.
C4_AvailableLoweredAndExceedsRejected ==
    [][\A p \in Requests :
          /\ Admitted(p) =>
                AvailableQuantity(store') =
                    AvailableQuantity(store) - req[p].quantity
          /\ ( /\ Started(p)
               /\ AfterStart(p).gets = 1
               /\ AfterStart(p).err = "none"
               /\ AvailableQuantity(store) > 0
               /\ AfterStart(p).quantity > AvailableQuantity(store) )
             => /\ req'[p].pc = "done"
                /\ resp'.code = StatusBadRequest
                /\ resp'.msg = "err_quantity_exceeds"
                /\ resp'.available = Some(AvailableQuantity(store))
                /\ store' = store
          /\ (Answered(p) /\ resp'.msg = "err_quantity_exceeds")
             => /\ resp'.quantity > AvailableQuantity(store)
                /\ resp'.code = StatusBadRequest]_vars

\* quantity=5: 3 are reserved, and a request for 3 was answered 400
\* reporting 2
C4_Witness ==
    /\ store.quantity = 5
    /\ Len(store.status.reservations) = 1
    /\ store.status.reservations[1].quantity = 3
    /\ AvailableQuantity(store) = 2
    /\ resp.quantity = 3
    /\ resp.code = StatusBadRequest
    /\ resp.msg = "err_quantity_exceeds"
    /\ resp.available = Some(2)

\* C5: a successful admission with quantity q and weeks w appends exactly
\* one reservation at the end of the list, with quantity q, created_at the
\* handler's now and expires_at = created_at + w * 7 days, 1 <= w <= 8; the
\* reservations already in the list are kept unchanged, in the same order.
C5_AppendsOneReservation ==
    [][\A p \in Requests : Admitted(p) =>
          /\ req[p].weeks >= 1 /\ req[p].weeks <= 8
          /\ store'.status.reservations =
                Append(store.status.reservations,
                       [quantity  |-> req[p].quantity,
                        createdAt |-> req[p].now[1],
                        expiresAt |-> req[p].now[1] + req[p].weeks * 7 * 24])
          /\ resp'.quantity = req[p].quantity
          /\ resp'.weeks = req[p].weeks]_vars

\* a reservation of 8 weeks was appended to a list that held one of 1 week
C5_Witness ==
    /\ resp.code = StatusOK
    /\ resp.weeks = 8
    /\ Len(store.status.reservations) = 2
    /\ store.status.reservations[1].expiresAt =
           store.status.reservations[1].createdAt + 7 * 24
    /\ store.status.reservations[2].expiresAt =
           store.status.reservations[2].createdAt + 8 * 7 * 24

\* C6: when the item read has AvailableQuantity 0, a request with valid
\* weeks and quantity is answered 409 "fully reserved" and the stored item
\* is unchanged.
C6_FullyReservedRejected ==
    [][\A p \in Requests :
          ( /\ Started(p)
            /\ AfterStart(p).gets = 1
            /\ AfterStart(p).err = "none"
            /\ AvailableQuantity(store) = 0 )
          => /\ req'[p].pc = "done"
             /\ resp'.code = StatusConflict
             /\ resp'.msg = "err_fully_reserved"
             /\ store' = store]_vars

\* quantity=2 with one reservation of quantity 2: a request was answered 409
C6_Witness ==
    /\ store.quantity = 2
    /\ Len(store.status.reservations) = 1
    /\ store.status.reservations[1].quantity = 2
    /\ resp.code = StatusConflict
    /\ resp.msg = "err_fully_reserved"

\* C7: a request whose weeks is not an integer in 1..8, or whose quantity
\* is present and not an integer >= 1, is answered 400 without any read or
\* write of the store; an absent quantity is taken as 1.
C7_InvalidFormRejected ==
    /\ ( /\ resp.pc = "done"
         /\ \/ resp.weeksForm \notin ValidWeeksForms
            \/ resp.quantityForm \notin (ValidQuantityForms \cup {<<>>}) )
       => /\ resp.code = StatusBadRequest
          /\ resp.gets = 0
          /\ resp.updates = 0
    /\ ( /\ resp.pc = "done"
         /\ resp.weeksForm \in ValidWeeksForms
         /\ resp.quantityForm \in (ValidQuantityForms \cup {<<>>}) )
       => /\ resp.gets = 1
          /\ resp.quantityForm = <<>> => resp.quantity = 1
    /\ \A p \in Requests :
          req[p].pc = "update" /\ req[p].quantityForm = <<>>
              => req[p].quantity = 1

\* weeks=9 was answered 400 and the store was not read
C7_Witness ==
    /\ resp.pc = "done"
    /\ resp.weeksForm = <<"9">>
    /\ resp.code = StatusBadRequest
    /\ resp.gets = 0

\* C8: a request naming an item that is not in the store is answered 404
\* and writes nothing; any other failure of the read is answered 500.
C8_NotFoundAndReadFailure ==
    /\ (resp.pc = "done" /\ resp.gets = 1 /\ resp.name = MissingName)
       => /\ resp.updates = 0
          /\ resp.err \in {"notfound", "error"}
    /\ (resp.pc = "done" /\ resp.err = "notfound")
       => resp.code = StatusNotFound /\ resp.updates = 0
    /\ (resp.pc = "done" /\ resp.err = "error" /\ resp.updates = 0)
       => resp.code = StatusInternalServerError

\* the request for "nonexistent" was answered 404
C8_Witness ==
    /\ resp.pc = "done"
    /\ resp.name = MissingName
    /\ resp.gets = 1
    /\ resp.code = StatusNotFound

\* C9: an admission whose conditional update is rejected for a version
\* conflict is answered 409, not the 500 of an unexpected store error.
C9_ConflictAnswered409 == resp.err = "conflict" => resp.code = StatusConflict

\* C10: after a Reconcile of an existing item that returns without error,
\* the stored status.active is !(ttl set and now > created_at + ttl), with
\* now the clock value the Reconcile decided on.
C10_ActiveFollowsTTL ==
    ( /\ rec.pc = "idle"
      /\ rec.result # Nil
      /\ rec.nowActive # Nil
      /\ rec.result[1].err = "none" )
    => store.status.active =
          ~( /\ store.ttl # Nil
             /\ rec.nowActive[1] > store.creationTimestamp + store.ttl[1] )

\* ttl=24h, created 48h before the Reconcile: active is stored false
C10_Witness ==
    /\ rec.pc = "idle"
    /\ rec.result # Nil
    /\ rec.result[1].err = "none"
    /\ store.ttl = Some(24)
    /\ rec.nowActive = Some(48)
    /\ store.status.active = FALSE

\* C11: a Reconcile that returns without error leaves in the stored list
\* exactly the reservations with expires_at > now, unchanged and in their
\* order (those with expires_at <= now are removed), which are the ones
\* ActiveReservations() gives, for now a clock value the Reconcile read.
C11_SweepRemovesExpired ==
    [][ReconcileReturned =>
          \E t \in ReconcileClock :
              store'.status.reservations = ActiveReservations(store, t)]_vars

\* C12: a Reconcile of an item with an unexpired legacy single reservation
\* and an empty reservation list leaves exactly one reservation in the
\* list, and no Reconcile of an item whose list is not empty adds one: any
\* number of successive runs leaves one converted reservation, never two.
C12_MigrationIdempotent ==
    [][ReconcileReturned =>
          /\ (LegacyUnexpired /\ store.status.reservations = <<>>)
                => Len(store'.status.reservations) = 1
          /\ store.status.reservations # <<>>
                => Len(store'.status.reservations)
                       <= Len(store.status.reservations)]_vars

\* C13: the converted reservation carries the legacy reserved-at as
\* created_at and the legacy expiry as expires_at, and after the Reconcile
\* the three legacy fields are cleared; when the legacy reservation was
\* already expired, the Reconcile ends with the legacy fields cleared and
\* an empty reservation list.
C13_MigrationLossless ==
    [][ReconcileReturned =>
          /\ (LegacyUnexpired /\ store.status.reservations = <<>>)
                => /\ Len(store'.status.reservations) = 1
                   /\ Some(store'.status.reservations[1].createdAt) =
                          store.status.reservedAt
                   /\ Some(store'.status.reservations[1].expiresAt) =
                          store.status.reservationExpires
                   /\ LegacyCleared(store'.status)
          /\ (LegacyExpired /\ store.status.reservations = <<>>)
                => /\ store'.status.reservations = <<>>
                   /\ LegacyCleared(store'.status)]_vars

\* C14: the wake delay a Reconcile returns is the minimum of the positive
\* candidates (the time until created_at + ttl when the item is active and
\* has a ttl; the time until the earliest expiry of a reservation stored
\* after the Reconcile), taken at clock values the Reconcile read, and it
\* is zero exactly when there is no such candidate.
C14_WakeDelayIsMinimum ==
    [][ReconcileReturned =>
          \E ta \in ReconcileClock, tb \in ReconcileClock :
              rec'.result[1].requeueAfter =
                  MinOrZero(WakeCandidates(store', rec'.isActive, ta, tb))]_vars

\* C15: under fair scheduling, an item with a ttl eventually has stored
\* active = false once created_at + ttl has passed, and a stored
\* reservation is eventually removed once its expires_at has passed.
C15_EventuallyExpired ==
    /\ (store.ttl # Nil /\ now > store.creationTimestamp + store.ttl[1])
           ~> (store.status.active = FALSE)
    /\ \A e \in Instants :
           (e \in ReservationExpiries(store.status) /\ now > e)
               ~> (e \notin ReservationExpiries(store.status))

C17_NotFoundIsQuiet ==
    [][(rec' # rec /\ rec'.getErr = "notfound") =>
          /\ rec'.pc = "idle"
          /\ rec'.result = Some([requeueAfter |-> 0, err |-> "none"])
          /\ store' = store]_vars

\* a Reconcile of "nonexistent" returned after the item had been reserved
C17_Witness ==
    /\ rec.getErr = "notfound"
    /\ rec.pc = "idle"
    /\ rec.result # Nil
    /\ store.status.reservations # <<>>

\* C18: when no time elapses between the requests of a client identity,
\* from its first request on, exactly the first rateBurst of them are
\* allowed and every later one is rejected with 429.
C18_FirstBurstAllowed ==
    \A v \in Visits :
        ( /\ mw[v].at # Nil
          /\ \A u \in EarlierRequests(v) : mw[u].at = mw[v].at )
        => /\ mw[v].pc = "next"
                <=> Cardinality(EarlierRequests(v)) < srv.rateBurst
           /\ mw[v].pc # "next"
                => mw[v].pc = "rejected" /\ mw[v].code = StatusTooManyRequests

\* rate 1/s, burst 2: of three immediate requests of one client the first
\* two were allowed and the third was rejected
C18_Witness ==
    /\ srv.rateLimit = 1 /\ srv.rateBurst = 2
    /\ mw[1].pc = "next" /\ mw[2].pc = "next" /\ mw[3].pc = "rejected"
    /\ mw[3].code = StatusTooManyRequests
    /\ mw[1].ip = mw[2].ip /\ mw[2].ip = mw[3].ip
    /\ mw[1].at = mw[3].at

\* C19: a reservation request the limiter rejects is answered 429 without
\* any read or write of the store, the stored item is as before, and
\* handleReserve never runs for it.
C19_RejectedNeverAdmitted ==
    [][\A v \in Requests :
          /\ (mw[v].pc = "allow" /\ mw'[v].code = StatusTooManyRequests)
                => /\ resp'.code = StatusTooManyRequests
                   /\ resp'.gets = 0
                   /\ resp'.updates = 0
                   /\ store' = store
          /\ mw'[v].code = StatusTooManyRequests
                => /\ req'[v].pc = "done"
                   /\ req'[v].gets = 0
                   /\ req'[v].updates = 0]_vars

\* the second reservation request of a client was rejected right after its
\* first one had been stored
C19_Witness ==
    /\ mw[2].code = StatusTooManyRequests
    /\ mw[2].ip = mw[1].ip
    /\ resp.code = StatusTooManyRequests
    /\ Len(store.status.reservations) = 1

\* C20: the client identity a request is limited by is the first value of
\* X-Forwarded-For, trimmed, when that header is not empty; otherwise
\* X-Real-IP when it is not empty; otherwise the host part of RemoteAddr,
\* and the whole RemoteAddr when it has no port.
C20_ClientIdentity ==
    \A v \in Visits : mw[v].pc # "idle" =>
        /\ mw[v].xff # <<>>
              => \E f \in {SubSeq(mw[v].xff, 1, k) : k \in 0..Len(mw[v].xff)} :
                    IsFirstValue(f, mw[v].xff) /\ IsTrimmed(mw[v].ip, f)
        /\ (mw[v].xff = <<>> /\ mw[v].xri # <<>>)
              => mw[v].ip = mw[v].xri
        /\ (mw[v].xff = <<>> /\ mw[v].xri = <<>>)
              => IF HasPort(mw[v].remoteAddr)
                 THEN IsHostOf(mw[v].ip, mw[v].remoteAddr)
                 ELSE mw[v].ip = mw[v].remoteAddr

\* a request with X-Forwarded-For " 1 ,2" and X-Real-IP "3" is limited as
\* client "1"
C20_Witness ==
    /\ mw[1].pc = "next"
    /\ mw[1].xff = <<" ", "1", " ", ",", "2">>
    /\ mw[1].xri = <<"3">>
    /\ mw[1].ip = <<"1">>

\* the value returned by the helper fn, when it was the helper called last
Returned(fn) == call # Nil /\ call[1].fn = fn

\* C21: AvailableQuantity() is max(0, EffectiveQuantity() - TotalReserved()):
\* it is never negative, never below the difference, and is 0 or the
\* difference; quantity 2 with one reservation of 3 gives 0.
C21_AvailableIsClampedDifference ==
    Returned("AvailableQuantity") =>
        LET a == call[1].result
            d == GetQuantity(store) - TotalReserved(store)
        IN  /\ a >= 0
            /\ a >= d
            /\ a = 0 \/ a = d
            /\ ( /\ store.quantity = 2
                  /\ Len(store.status.reservations) = 1
                  /\ store.status.reservations[1].quantity = 3 ) => a = 0

\* AvailableQuantity() returned 0 for quantity 2 with one reservation of 3
C21_Witness ==
    /\ Returned("AvailableQuantity")
    /\ store.quantity = 2
    /\ Len(store.status.reservations) = 1
    /\ store.status.reservations[1].quantity = 3
    /\ call[1].result = 0

\* C22: the effective quantity is 1 when spec.quantity is 0 or negative and
\* spec.quantity otherwise.
C22_EffectiveQuantity ==
    Returned("GetQuantity") =>
        /\ store.quantity <= 0 => call[1].result = 1
        /\ store.quantity >= 1 => call[1].result = store.quantity

\* GetQuantity() returned 1 for spec.quantity -1
C22_Witness ==
    /\ Returned("GetQuantity")
    /\ store.quantity = -1
    /\ call[1].result = 1


\* C23: on an item whose spec.quantity is 0, a request with valid weeks and
\* a quantity >= 1 is never rejected for capacity: it is answered 200 and
\* its reservation is the last one of the stored list.
C23_UnlimitedNeverRejected ==
    ( /\ resp.pc = "done"
      /\ store.quantity = 0
      /\ resp.gets = 1
      /\ resp.quantity >= 1
      /\ resp.err = "none" )
    => /\ resp.code = StatusOK
       /\ store.status.reservations # <<>>
       /\ store.status.reservations[Len(store.status.reservations)].quantity
              = resp.quantity


\* C24: NextReservationExpiry() returns none for an empty list and else the
\* minimum expires_at of the stored reservations, of the first reservation
\* that has it; of the expiries 48, 12, 24 it returns 12.
C24_NextExpiryIsFirstMinimum ==
    Returned("NextReservationExpiry") =>
        LET rs == store.status.reservations
            r  == call[1].result
        IN  /\ rs = <<>> => r = Nil
            /\ rs # <<>> =>
                  /\ r # Nil
                  /\ r[1] \in 1..Len(rs)
                  /\ \A j \in 1..Len(rs) :
                        /\ rs[r[1]].expiresAt <= rs[j].expiresAt
                        /\ j < r[1] => rs[j].expiresAt > rs[r[1]].expiresAt
            /\ ( /\ Len(rs) = 3
                 /\ rs[1].expiresAt = 48
                 /\ rs[2].expiresAt = 12
                 /\ rs[3].expiresAt = 24 ) => rs[r[1]].expiresAt = 12

\* of the expiries 48, 12, 12 the second reservation was returned
C24_Witness ==
    /\ Returned("NextReservationExpiry")
    /\ Len(store.status.reservations) = 3
    /\ store.status.reservations[2].expiresAt = 12
    /\ store.status.reservations[3].expiresAt = 12
    /\ call[1].result = Some(2)


\* C25: an admission or a Reconcile whose context is done (deadline
\* exceeded or cancelled) when it calls the store returns in that step
\* without writing the stored item and without calling the store again, and
\* what it reports differs from what it reports for a store error: the
\* handler does not answer with the 500 "get failed" / "reserve failed" of a
\* store error, Reconcile returns the error of the context.
C25_DeadlineAbortsDistinctly ==
    [][/\ \A p \in Requests :
            (Answered(p) /\ resp'.err \in ContextErrors)
            => /\ store' = store
               /\ resp'.gets <= 1 /\ resp'.updates <= 1
               /\ ~( /\ resp'.code = StatusInternalServerError
                     /\ resp'.msg \in {"err_get_wish", "err_reserve_failed"} )
       /\ ( /\ rec' # rec
            /\ rec.ctx \in ContextErrors
            /\ rec'.result # Nil )
          => /\ store' = store
             /\ rec'.pc = "idle"
             /\ rec'.gets <= 1 /\ rec'.updates <= 1
             /\ rec'.result[1].err = rec.ctx]_vars


\* the response r is a validation or a capacity rejection
Rejection(r) ==
    /\ r.pc = "done"
    /\ r.msg \in {"err_weeks_range", "err_invalid_quantity",
                  "err_fully_reserved", "err_quantity_exceeds"}

C27_OneWholeStatusWrite ==
    [][/\ rec'.updates <= 1
       /\ rec'.updates > rec.updates => rec.pc = "update"
       /\ (rec.pc = "idle" /\ rec'.pc = "update")
          => rec'.wish[1].status # store.status
       /\ (rec.pc = "idle" /\ rec' # rec /\ rec'.pc = "idle")
          => store' = store
       /\ store' # store
          => \/ \E p \in Requests : Admitted(p)
             \/ /\ rec.pc = "update"
                /\ rec'.pc = "idle"
                /\ store'.status = rec.wish[1].status
                /\ store'.status.active = rec.isActive
                /\ store'.status.reservations = store.status.reservations
                /\ \/ LegacyCleared(store'.status)
                   \/ /\ store'.status.reserved = store.status.reserved
                      /\ store'.status.reservedAt = store.status.reservedAt
                      /\ store'.status.reservationExpires =
                             store.status.reservationExpires]_vars

\* after a first Reconcile that set the active flag, a second one has
\* stored with its one update both the active flag set false and the legacy
\* reservation cleared (no admission has written the item)
C27_Witness ==
    /\ rec.pc = "idle"
    /\ rec.result # Nil
    /\ rec.result[1].err = "none"
    /\ rec.updates = 1
    /\ store.resourceVersion = 3
    /\ store.status.reservations = <<>>
    /\ ~store.status.active
    /\ LegacyCleared(store.status)


\* C28: a Reconcile that returns a version conflict has re-run the
\* reconciliation in-process before: it has read the item and tried the
\* status update more than once.
C28_ConflictRetriedInProcess ==
    ( /\ rec.pc = "idle"
      /\ rec.result # Nil
      /\ rec.result[1].err = "conflict" )
    => /\ rec.gets > 1
       /\ rec.updates > 1


\* C29: a Reconcile whose Get fails with an error other than not-found
\* returns that error without calling Status().Update; a Reconcile whose
\* Status().Update is not accepted returns an error; both return no wake
\* delay and leave the stored item as it is.
C29_StoreErrorReturned ==
    [][/\ ( /\ rec.pc = "idle"
            /\ rec' # rec
            /\ rec'.getErr \notin {"none", "notfound"} )
          => /\ rec'.pc = "idle"
             /\ rec'.result = Result(0, rec'.getErr)
             /\ rec'.updates = 0
             /\ store' = store
       /\ ( /\ rec.pc = "update"
            /\ rec' # rec
            /\ store' = store )
          => /\ rec'.pc = "idle"
             /\ rec'.result # Nil
             /\ rec'.result[1].err \in {"error", "conflict"}
             /\ rec'.result[1].requeueAfter = 0
       /\ ( /\ rec' # rec
            /\ rec'.result # Nil
            /\ rec'.result[1].err # "none" )
          => /\ rec'.result[1].requeueAfter = 0
             /\ store' = store]_vars

\* a Reconcile returned the error of its failed Get, having written nothing
C29_Witness ==
    /\ rec.pc = "idle"
    /\ rec.getErr = "error"
    /\ rec.result = Result(0, "error")
    /\ rec.gets = 1
    /\ rec.updates = 0
    /\ store.resourceVersion = 1


\* C30: all requests of one client identity draw from one token bucket,
\* whatever the interleaving: the limiters handed to two requests of the
\* same identity are the same, and at most rateBurst requests of an
\* identity are allowed at one instant.
C30_OneBucketPerIdentity ==
    /\ \A u \in Visits, v \in Visits :
          ( /\ mw[u].limiter # Nil
            /\ mw[v].limiter # Nil
            /\ mw[u].ip = mw[v].ip )
          => mw[u].limiter = mw[v].limiter
    /\ \A v \in Visits :
          mw[v].pc = "next"
          => Cardinality({ u \in Visits : /\ mw[u].pc = "next"
                                          /\ mw[u].ip = mw[v].ip
                                          /\ mw[u].at = mw[v].at })
                <= srv.rateBurst


\* C31: a step changes the stored reservation list only by appending one
\* reservation or by removing reservations that have expired; the
\* reservations it keeps are unchanged and in the same order.
C31_ReservationsImmutable ==
    [][LET old == store.status.reservations
           new == store'.status.reservations
       IN  \/ new = old
           \/ new # <<>> /\ new = Append(old, new[Len(new)])
           \/ \E t \in Instants :
                 /\ t <= now'
                 /\ new = SelectSeq(old, LAMBDA r : r.expiresAt > t)]_vars

\* two reservations were appended and a Reconcile has written the status
\* of the item: three writes, and both reservations are stored
C31_Witness ==
    /\ Len(store.status.reservations) = 2
    /\ store.resourceVersion = 4
    /\ rec.pc = "idle"
    /\ rec.updates = 1
    /\ rec.result # Nil
    /\ rec.result[1].err = "none"


\* C32: no step changes the identity or the spec of the stored item; an
\* accepted admission changes the reservation list only, so the stored
\* active flag and legacy fields stay as they were; a status write of
\* Reconcile appends nothing, except one reservation made of the legacy
\* fields it clears.
C32_FrameOfWrites ==
    [][/\ store'.quantity = store.quantity
       /\ store'.ttl = store.ttl
       /\ store'.creationTimestamp = store.creationTimestamp
       /\ \A p \in Requests : Admitted(p) =>
             /\ store'.status.reservations # store.status.reservations
             /\ store'.status =
                   [store.status EXCEPT !.reservations =
                                            store'.status.reservations]
       /\ (rec.pc = "update" /\ rec'.pc = "idle" /\ store' # store) =>
             LET old == store.status.reservations
                 new == store'.status.reservations
             IN  \/ Len(new) <= Len(old)
                 \/ /\ new = Append(old, new[Len(new)])
                    /\ store.status.reserved
                    /\ LegacyCleared(store'.status)
                    /\ store.status.reservedAt = Some(new[Len(new)].createdAt)
                    /\ store.status.reservationExpires =
                           Some(new[Len(new)].expiresAt)]_vars

\* a request was admitted on the item a Reconcile had set active, which is
\* still reserved in the legacy format
C32_Witness ==
    /\ resp.pc = "done"
    /\ resp.code = StatusOK
    /\ Len(store.status.reservations) = 1
    /\ store.status.active
    /\ store.status.reserved
    /\ store.status.reservationExpires = Some(24)
    /\ store.resourceVersion = 3


\* C33: a stored reservation holds its capacity after it has expired: a
\* request with valid weeks and quantity that reads an item holding an
\* expired reservation is checked against the effective quantity less the
\* quantities of all stored reservations, and is rejected with 409 when
\* nothing is left and with 400 and the amount left when it asks for more.
C33_ExpiredStillCounts ==
    [][\A p \in Requests :
          ( /\ Started(p)
            /\ AfterStart(p).gets = 1
            /\ AfterStart(p).err = "none"
            /\ \E i \in DOMAIN store.status.reservations :
                  store.status.reservations[i].expiresAt <= now )
          => LET left == GetQuantity(store)
                            - SumQuantity(store.status.reservations)
             IN  /\ left <= 0
                    => /\ req'[p].pc = "done"
                       /\ resp'.code = StatusConflict
                       /\ resp'.msg = "err_fully_reserved"
                 /\ (left > 0 /\ AfterStart(p).quantity > left)
                    => /\ req'[p].pc = "done"
                       /\ resp'.code = StatusBadRequest
                       /\ resp'.msg = "err_quantity_exceeds"
                       /\ resp'.available = Some(left)
                 /\ store' = store]_vars

\* at instant 48 a request for 3 was rejected, with 2 left, on the item of
\* quantity 5 whose reservation of 3 expired at instant 24
C33_Witness ==
    /\ now = 48
    /\ store.quantity = 5
    /\ Len(store.status.reservations) = 1
    /\ store.status.reservations[1].expiresAt = 24
    /\ resp.pc = "done"
    /\ resp.quantity = 3
    /\ resp.code = StatusBadRequest
    /\ resp.msg = "err_quantity_exceeds"
    /\ resp.available = Some(2)


\* C34: after a Reconcile that returned without error and left the active
\* flag of an item with a ttl stored true, the returned wake delay is
\* greater than 0 and ends not later than created_at + ttl, counted from
\* the clock value the active flag was decided on.
C34_ActiveItemIsWoken ==
    ( /\ rec.pc = "idle"
      /\ rec.result # Nil
      /\ rec.result[1].err = "none"
      /\ rec.nowActive # Nil
      /\ rec.isActive
      /\ store.ttl # Nil
      /\ store.status.active )
    => /\ rec.result[1].requeueAfter > 0
       /\ rec.nowActive[1] + rec.result[1].requeueAfter
             <= store.creationTimestamp + store.ttl[1]


\* C35: the status update of a Reconcile that read the item before a write
\* of somebody else is rejected and stores nothing, and no status update of
\* a Reconcile drops a stored reservation that has not expired.
C35_ReconcileKeepsAdmitted ==
    [][(rec.pc = "update" /\ rec'.pc = "idle") =>
          /\ rec.wish[1].resourceVersion # store.resourceVersion
                => /\ store' = store
                   /\ rec'.result[1].err # "none"
          /\ \A i \in DOMAIN store.status.reservations :
                store.status.reservations[i].expiresAt > now
                => \E j \in DOMAIN store'.status.reservations :
                      store'.status.reservations[j] =
                          store.status.reservations[i]]_vars

\* a request was admitted between the Get and the update of a Reconcile:
\* the update was rejected with a conflict and the reservation is stored
C35_Witness ==
    /\ rec.pc = "idle"
    /\ rec.result # Nil
    /\ rec.result[1].err = "conflict"
    /\ resp.code = StatusOK
    /\ Len(store.status.reservations) = 1
    /\ store.resourceVersion = 2


\* the instants at which the derived state of item w changes: the end of
\* its ttl and the expiries of its reservations
Boundaries(w) ==
    (IF w.ttl # Nil THEN {w.creationTimestamp + w.ttl[1]} ELSE {})
    \cup ReservationExpiries(w.status)

\* C36: a Reconcile that follows a Reconcile of the same item that returned
\* without error, when nobody else wrote the item and no boundary of the
\* item lies between the first clock read of the first and the last clock
\* read of the second, returns without a status update, and its wake delay
\* is zero if the first one's was and ends at the same instant otherwise.
C36_ReconcileIdempotent ==
    [][( /\ rec.pc = "idle"
         /\ rec' # rec
         /\ rec.result # Nil
         /\ rec.result[1].err = "none"
         /\ rec.nowActive # Nil
         /\ rec'.nowActive # Nil
         /\ \A b \in Boundaries(store) :
               ~(rec.nowActive[1] <= b /\ b < now') )
       => /\ rec'.pc = "idle"
          /\ rec'.updates = 0
          /\ rec'.result # Nil
          /\ rec'.result[1].err = "none"
          /\ rec'.result[1].requeueAfter > 0
                <=> rec.result[1].requeueAfter > 0
          /\ rec'.result[1].requeueAfter > 0
                => \E t \in Instants, u \in Instants :
                      /\ rec.nowActive[1] <= t /\ t <= now
                      /\ now <= u /\ u <= now'
                      /\ t + rec.result[1].requeueAfter
                            = u + rec'.result[1].requeueAfter]_vars


\* C37: the outcome of a request with valid weeks and quantity on the
\* stored item, when the store does not fail, is decided by the quantity
\* asked for and by what is left of the item, whatever its active flag is:
\* 409 when nothing is left, 400 with the amount left when more is asked
\* for, and the status update otherwise, also on an item that is not active.
C37_ActiveFlagIgnored ==
    [][\A p \in Requests :
          ( /\ Started(p)
            /\ AfterStart(p).gets = 1
            /\ AfterStart(p).name = WishName
            /\ AfterStart(p).err # "error" )
          => LET left == GetQuantity(store)
                            - SumQuantity(store.status.reservations)
                 q    == AfterStart(p).quantity
             IN  /\ left <= 0
                    => /\ req'[p].pc = "done"
                       /\ resp'.code = StatusConflict
                 /\ (left > 0 /\ q > left)
                    => /\ req'[p].pc = "done"
                       /\ resp'.code = StatusBadRequest
                       /\ resp'.available = Some(left)
                 /\ (left > 0 /\ q <= left)
                    => /\ req'[p].pc = "update"
                       /\ req'[p].wish[1].status.active = store.status.active]_vars

\* a request was admitted on an item whose ttl of 24h has expired and whose
\* stored active flag is false
C37_Witness ==
    /\ resp.pc = "done"
    /\ resp.code = StatusOK
    /\ store.ttl = Some(24)
    /\ now = 48
    /\ ~store.status.active
    /\ rec.result # Nil
    /\ rec.nowActive = Some(48)
    /\ Len(store.status.reservations) = 1
    /\ store.status.reservations[1].createdAt = 48


\* C38: no step changes the legacy fields of an item that is reserved with
\* no expiry set, and a Reconcile that returns without error on such an
\* item returns no wake delay but the one that ends with the ttl; a
\* Reconcile that returns without error on an item whose legacy reservation
\* expired before its clock reads leaves the legacy fields cleared.
C38_LegacyWithoutExpiryKept ==
    [][/\ (store.status.reserved /\ store.status.reservationExpires = Nil)
          => /\ store'.status.reserved
             /\ store'.status.reservedAt = store.status.reservedAt
             /\ store'.status.reservationExpires = Nil
             /\ ReconcileReturned
                   => \/ rec'.result[1].requeueAfter = 0
                      \/ /\ store.ttl # Nil
                         /\ \E t \in ReconcileClock :
                               rec'.result[1].requeueAfter =
                                   store.creationTimestamp + store.ttl[1] - t
       /\ (ReconcileReturned /\ LegacyExpired)
          => LegacyCleared(store'.status)]_vars

\* a Reconcile at instant 48 wrote the active flag of the item reserved with
\* no expiry and returned no wake delay: the item is still reserved
C38_Witness ==
    /\ store.status.reserved
    /\ store.status.reservedAt = Some(0)
    /\ store.status.reservationExpires = Nil
    /\ store.ttl = Nil
    /\ store.status.active
    /\ rec.pc = "idle"
    /\ rec.nowActive = Some(48)
    /\ rec.updates = 1
    /\ rec.result = Result(0, "none")


\* C39: every reservation the admissions have stored has a quantity of at
\* least 1 that fits in 32 bits, and expires a whole number of weeks, from
\* 1 to 8, after it was created.
C39_StoredReservationBounds ==
    \A i \in DOMAIN store.status.reservations :
        LET r == store.status.reservations[i] IN
        /\ r.quantity >= 1
        /\ r.quantity <= MaxInt32
        /\ \E w \in 1..8 : r.expiresAt - r.createdAt = w * 7 * 24

\* a request with weeks 1 and no quantity field was admitted: a reservation
\* of 1 that lasts 168 hours is stored
C39_Witness ==
    /\ resp.pc = "done"
    /\ resp.code = StatusOK
    /\ resp.weeksForm = <<"1">>
    /\ resp.quantityForm = <<>>
    /\ store.status.reservations # <<>>
    /\ LET r == store.status.reservations[Len(store.status.reservations)]
       IN  r.quantity = 1 /\ r.expiresAt - r.createdAt = 168

====
